---- MODULE Spec2Model ----
(***************************************************************************)
(* Model of appStreamlit.py: the field normalizers, the two table parsers, *)
(* the layout detection scan of load_data, the summary aggregation of      *)
(* main, the pivot export create_matrix_csv and the renderer generate_svg. *)
(*                                                                         *)
(* Text is modelled as TLA+ strings, read character by character.  The     *)
(* Japanese literals of the source are written in ASCII:                   *)
(*   "nouhinbi" = delivery date, "bumon" = department,                     *)
(*   "shouhin_code" = product code, "shouhinmei" = product name,           *)
(*   "hacchuu_suuryou" = order quantity, "uri_tanka" = sale unit price,    *)
(*   "hacchuu_kubun" = order classification, "JAN-code" = JAN code,        *)
(*   "shuugoukei" = weekly total, "suuryou" = quantity, "baika" = price,   *)
(*   "hansoku" = promotion, "tokubai" / "se-ru" / "supo" = sale markers,   *)
(*   "tsuujou" = regular.                                                  *)
(***************************************************************************)
EXTENDS Integers, Sequences, FiniteSets, TLC

VARIABLES
    dept_val, dept_ret,         \* clean_dept: argument, outcome
    fmt, df, parsed,            \* a parser call: layout, input table, outcome
    columns, header,            \* the header pass: df.columns, its outcome
    records, csv,               \* create_matrix_csv: the record set, the export
    filtered_df, agg_view,      \* the summary of main: the record set, the table
    sample, pc, enc_i, line_i, start_row, detected_enc, format_type,  \* the scan of load_data
    svg_row, daily_qty_map, start_date, svg     \* generate_svg: arguments, document

varsDept == <<dept_val, dept_ret>>

varsParse == <<fmt, df, parsed>>

varsHeader == <<columns, header>>

varsPivot == <<records, csv>>

varsAgg == <<filtered_df, agg_view>>

varsSvg == <<svg_row, daily_qty_map, start_date, svg>>

varsScan == <<sample, pc, enc_i, line_i, start_row, detected_enc, format_type>>

vars == <<dept_val, dept_ret, fmt, df, parsed, columns, header, records, csv,
          filtered_df, agg_view, sample, pc, enc_i, line_i, start_row, detected_enc,
          format_type, svg_row, daily_qty_map, start_date, svg>>

Idle == [exc |-> "idle"]

\* None in the place of a date
NoDate == [y |-> 0, m |-> 0, d |-> 0]

Pending == [exc |-> "pending"]

-----------------------------------------------------------------------------
(* Text helpers *)

CharAt(s, i) == SubSeq(s, i, i)

Digits == {"0", "1", "2", "3", "4", "5", "6", "7", "8", "9"}

DigitVal(c) ==
    CASE c = "0" -> 0 [] c = "1" -> 1 [] c = "2" -> 2 [] c = "3" -> 3
      [] c = "4" -> 4 [] c = "5" -> 5 [] c = "6" -> 6 [] c = "7" -> 7
      [] c = "8" -> 8 [] c = "9" -> 9

DigitChar(d) == CharAt("0123456789", d + 1)

AllDigits(s) == \A i \in 1..Len(s) : CharAt(s, i) \in Digits

\* the substring test of Python's "a in b"
Contains(s, sub) ==
    \E i \in 1..(Len(s) - Len(sub) + 1) : SubSeq(s, i, i + Len(sub) - 1) = sub

StartsWith(s, p) == Len(s) >= Len(p) /\ SubSeq(s, 1, Len(p)) = p

EndsWith(s, p) == Len(s) >= Len(p) /\ SubSeq(s, Len(s) - Len(p) + 1, Len(s)) = p

RECURSIVE LStrip(_, _)
LStrip(s, c) == IF s # "" /\ Head(s) = c THEN LStrip(Tail(s), c) ELSE s

RECURSIVE RStrip(_, _)
RStrip(s, c) ==
    IF s # "" /\ CharAt(s, Len(s)) = c THEN RStrip(SubSeq(s, 1, Len(s) - 1), c) ELSE s

\* str.strip(): the only whitespace of the modelled alphabets is the blank
Strip(s) == RStrip(LStrip(s, " "), " ")

LowerChar(c) == CASE c = "N" -> "n" [] c = "A" -> "a" [] c = "I" -> "i"
                  [] c = "F" -> "f" [] OTHER -> c

RECURSIVE Lower(_)
Lower(s) == IF s = "" THEN "" ELSE LowerChar(Head(s)) \o Lower(Tail(s))

RECURSIVE StrToNat(_)
StrToNat(s) == IF s = "" THEN 0
               ELSE StrToNat(SubSeq(s, 1, Len(s) - 1)) * 10 + DigitVal(CharAt(s, Len(s)))

RECURSIVE NatToStr(_)
NatToStr(n) == IF n < 10 THEN DigitChar(n) ELSE NatToStr(n \div 10) \o DigitChar(n % 10)

\* str(int)
IntToStr(n) == IF n < 0 THEN "-" \o NatToStr(-n) ELSE NatToStr(n)

RECURSIVE Pow10(_)
Pow10(k) == IF k = 0 THEN 1 ELSE 10 * Pow10(k - 1)

RECURSIVE Zeros(_)
Zeros(n) == IF n <= 0 THEN "" ELSE "0" \o Zeros(n - 1)

\* str.zfill(width): zeros go after a leading sign
ZFill(s, width) ==
    IF Len(s) >= width THEN s
    ELSE IF s # "" /\ Head(s) \in {"-", "+"}
         THEN Head(s) \o Zeros(width - Len(s)) \o Tail(s)
         ELSE Zeros(width - Len(s)) \o s

RECURSIVE StrsUpTo(_, _)
StrsUpTo(alphabet, n) ==
    IF n = 0 THEN {""}
    ELSE LET shorter == StrsUpTo(alphabet, n - 1)
         IN  shorter \cup {s \o c : s \in shorter, c \in alphabet}

-----------------------------------------------------------------------------
(* Python values and float()/int() *)

\* A float is finite (-1)^neg * m / 10^k, or inf, or nan.
Fin(neg, m, k) == [c |-> "fin", neg |-> neg, m |-> m, k |-> k]
Inf(neg)       == [c |-> "inf", neg |-> neg, m |-> 0, k |-> 0]
NaN            == [c |-> "nan", neg |-> FALSE, m |-> 0, k |-> 0]
BadFloat       == [c |-> "ValueError", neg |-> FALSE, m |-> 0, k |-> 0]

PyNone     == [t |-> "none"]
PyInt(n)   == [t |-> "int", v |-> n]
PyFloat(f) == [t |-> "float", f |-> f]
PyStr(s)   == [t |-> "str", s |-> s]

\* the unsigned part of a float literal: inf, infinity, nan, or digits with
\* at most one point and at least one digit (no exponent in the alphabets)
ParseUnsigned(neg, u) ==
    LET dot == {i \in 1..Len(u) : CharAt(u, i) = "."}
    IN  IF Lower(u) \in {"inf", "infinity"} THEN Inf(neg)
        ELSE IF Lower(u) = "nan" THEN NaN
        ELSE IF u = "" THEN BadFloat
        ELSE IF dot = {} THEN
            IF AllDigits(u) THEN Fin(neg, StrToNat(u), 0) ELSE BadFloat
        ELSE IF Cardinality(dot) > 1 THEN BadFloat
        ELSE LET p == CHOOSE i \in dot : TRUE
                 ip == SubSeq(u, 1, p - 1)
                 fp == SubSeq(u, p + 1, Len(u))
             IN  IF AllDigits(ip) /\ AllDigits(fp) /\ Len(ip) + Len(fp) > 0
                 THEN Fin(neg, StrToNat(ip \o fp), Len(fp))
                 ELSE BadFloat

\* float(str): surrounding blanks are ignored, one sign is allowed
ParseFloat(s) ==
    LET t == Strip(s)
    IN  IF t # "" /\ Head(t) \in {"-", "+"}
        THEN ParseUnsigned(Head(t) = "-", Tail(t))
        ELSE ParseUnsigned(FALSE, t)

\* float(x): [exc, f]
PyFloatOf(x) ==
    CASE x.t = "none"  -> [exc |-> "TypeError", f |-> BadFloat]
      [] x.t = "int"   -> [exc |-> "None",
                           f |-> Fin(x.v < 0, IF x.v < 0 THEN -x.v ELSE x.v, 0)]
      [] x.t = "float" -> [exc |-> "None", f |-> x.f]
      [] x.t = "str"   -> IF ParseFloat(x.s).c = "ValueError"
                          THEN [exc |-> "ValueError", f |-> BadFloat]
                          ELSE [exc |-> "None", f |-> ParseFloat(x.s)]

\* int(float): truncation toward zero; inf and nan have no integer
PyIntOfFloat(f) ==
    CASE f.c = "inf" -> [exc |-> "OverflowError", v |-> 0]
      [] f.c = "nan" -> [exc |-> "ValueError", v |-> 0]
      [] f.c = "fin" -> [exc |-> "None",
                         v |-> IF f.neg THEN -(f.m \div Pow10(f.k))
                               ELSE f.m \div Pow10(f.k)]

-----------------------------------------------------------------------------
(* str() of a cell *)

FloatToStr(f) ==
    CASE f.c = "nan" -> "nan"
      [] f.c = "inf" -> IF f.neg THEN "-inf" ELSE "inf"
      [] f.c = "fin" ->
            LET ip == NatToStr(f.m \div Pow10(f.k))
                fr == NatToStr(f.m % Pow10(f.k))
                sg == IF f.neg THEN "-" ELSE ""
            IN  IF f.k = 0 THEN sg \o ip \o ".0"
                ELSE sg \o ip \o "." \o Zeros(f.k - Len(fr)) \o fr

PyStrOf(x) ==
    CASE x.t = "none"  -> "None"
      [] x.t = "int"   -> IntToStr(x.v)
      [] x.t = "float" -> FloatToStr(x.f)
      [] x.t = "str"   -> x.s

\* pd.isna of a scalar cell
IsNaCell(x) == x.t = "none" \/ (x.t = "float" /\ x.f.c = "nan")

NaNCell == PyFloat(NaN)

\* pd.to_numeric(x, errors='coerce') of a scalar: a float, NaN when x is no number
to_numeric(x) ==
    CASE x.t = "none"  -> NaN
      [] x.t = "int"   -> PyFloatOf(x).f
      [] x.t = "float" -> x.f
      [] x.t = "str"   -> IF ParseFloat(x.s).c = "ValueError" THEN NaN ELSE ParseFloat(x.s)

IsNaN(f) == f.c = "nan"

\* f == 0 for a float
IsZero(f) == f.c = "fin" /\ f.m = 0

-----------------------------------------------------------------------------
(* clean_jan *)

\* re.sub(r'\.0$', '', s)
DropDotZero(s) == IF EndsWith(s, ".0") THEN SubSeq(s, 1, Len(s) - 2) ELSE s

clean_jan(jan_val) == DropDotZero(LStrip(Strip(PyStrOf(jan_val)), "'"))

-----------------------------------------------------------------------------
(* parse_date_str *)


Date(y, m, d) == [y |-> y, m |-> m, d |-> d]

IsLeap(y) == (y % 4 = 0 /\ y % 100 # 0) \/ y % 400 = 0

DaysInMonth(y, m) ==
    IF m = 2 THEN (IF IsLeap(y) THEN 29 ELSE 28)
    ELSE IF m \in {4, 6, 9, 11} THEN 30 ELSE 31

\* datetime.date(y, m, d) succeeds
ValidDate(y, m, d) ==
    y \in 1..9999 /\ m \in 1..12 /\ d \in 1..DaysInMonth(y, m)

\* datetime.date.today().year
default_year == 2024

\* re.match(r'^\d{8}$', s) and strptime(s, '%Y%m%d')
ParseYmd8(s) ==
    IF Len(s) = 8 /\ AllDigits(s)
       /\ ValidDate(StrToNat(SubSeq(s, 1, 4)), StrToNat(SubSeq(s, 5, 6)),
                    StrToNat(SubSeq(s, 7, 8)))
    THEN Date(StrToNat(SubSeq(s, 1, 4)), StrToNat(SubSeq(s, 5, 6)),
              StrToNat(SubSeq(s, 7, 8)))
    ELSE NoDate

\* the number of leading digits of s, at most two
LeadDigits(s) ==
    IF Len(s) >= 1 /\ CharAt(s, 1) \in Digits
    THEN (IF Len(s) >= 2 /\ CharAt(s, 2) \in Digits THEN 2 ELSE 1)
    ELSE 0

\* re.match(r'(\d{1,2})/(\d{1,2})', s): a prefix match, greedy in both groups
ParseMD(s, year) ==
    LET n1 == LeadDigits(s)
        rest == SubSeq(s, n1 + 2, Len(s))
        n2 == LeadDigits(rest)
        month == StrToNat(SubSeq(s, 1, n1))
        day == StrToNat(SubSeq(rest, 1, n2))
    IN  IF n1 >= 1 /\ Len(s) > n1 /\ CharAt(s, n1 + 1) = "/" /\ n2 >= 1
           /\ ValidDate(year, month, day)
        THEN Date(year, month, day)
        ELSE NoDate

\* pd.to_datetime(s).date() for the tokens of the model: YYYY-MM-DD and
\* YYYY/MM/DD are read, text that holds no number is refused
to_datetime(s) ==
    IF Len(s) = 10 /\ CharAt(s, 5) \in {"-", "/"} /\ CharAt(s, 8) = CharAt(s, 5)
       /\ AllDigits(SubSeq(s, 1, 4)) /\ AllDigits(SubSeq(s, 6, 7))
       /\ AllDigits(SubSeq(s, 9, 10))
       /\ ValidDate(StrToNat(SubSeq(s, 1, 4)), StrToNat(SubSeq(s, 6, 7)),
                    StrToNat(SubSeq(s, 9, 10)))
    THEN Date(StrToNat(SubSeq(s, 1, 4)), StrToNat(SubSeq(s, 6, 7)),
              StrToNat(SubSeq(s, 9, 10)))
    ELSE NoDate

\* NoDate stands for None
parse_date_str(date_str) ==
    LET s == Strip(PyStrOf(date_str))
    IN  IF s = "" \/ Lower(s) = "nan" THEN NoDate
        ELSE IF ParseYmd8(s) # NoDate THEN ParseYmd8(s)
        ELSE IF ParseMD(s, default_year) # NoDate THEN ParseMD(s, default_year)
        ELSE to_datetime(s)

DateKey(d) == d.y * 10000 + d.m * 100 + d.d

-----------------------------------------------------------------------------
(* clean_dept *)

\* the exceptions clean_dept's except clause names
DeptCaught == {"ValueError", "TypeError"}

\* [exc, val]: exc = "None" when the call returns val
clean_dept(dept_v) ==
    LET fl == PyFloatOf(dept_v)
        iv == PyIntOfFloat(fl.f)
    IN  IF fl.exc # "None"
        THEN IF fl.exc \in DeptCaught THEN [exc |-> "None", val |-> "000"]
             ELSE [exc |-> fl.exc, val |-> ""]
        ELSE IF iv.exc # "None"
        THEN IF iv.exc \in DeptCaught THEN [exc |-> "None", val |-> "000"]
             ELSE [exc |-> iv.exc, val |-> ""]
        ELSE [exc |-> "None", val |-> ZFill(IntToStr(iv.v), 3)]

DeptStrLen == 3

DeptAlphabet == {"0", "1", "7", "-", ".", "x", "i", "n", "f", "a", " "}

DeptInputs ==
    {PyNone}
    \cup {PyInt(n) : n \in {-1, 0, 5, 12, 999}}
    \cup {PyFloat(f) : f \in {Fin(FALSE, 125, 1), Fin(TRUE, 5, 1), Inf(FALSE), Inf(TRUE), NaN}}
    \cup {PyStr(s) : s \in StrsUpTo(DeptAlphabet, DeptStrLen)}

IdleDept == dept_val = PyNone /\ dept_ret = Idle

IdleParse == fmt = 0 /\ df = <<>> /\ parsed = Idle

IdleHeader == columns = <<>> /\ header = Idle

IdlePivot == records = <<>> /\ csv = Idle

IdleAgg == filtered_df = <<>> /\ agg_view = Idle

IdleScan ==
    /\ sample = <<>> /\ pc = "idle" /\ enc_i = 0 /\ line_i = 0
    /\ start_row = 0 /\ detected_enc = "" /\ format_type = 0

IdleSvg == svg_row = <<>> /\ daily_qty_map = <<>> /\ start_date = NoDate /\ svg = Idle

InitDept ==
    /\ dept_val \in DeptInputs /\ dept_ret = Pending
    /\ IdleParse /\ IdleHeader /\ IdlePivot /\ IdleAgg /\ IdleScan /\ IdleSvg

CleanDept ==
    /\ dept_ret = Pending
    /\ dept_ret' = clean_dept(dept_val)
    /\ UNCHANGED <<dept_val, varsParse, varsHeader, varsPivot, varsAgg, varsScan, varsSvg>>

\* C2: clean_dept returns for every input without raising, its result is three
\* digits, and the result is "000" whenever the coercion to an integer fails.
C2_CleanDeptTotal ==
    dept_ret # Pending =>
        /\ dept_ret.exc = "None"
        /\ Len(dept_ret.val) = 3 /\ AllDigits(dept_ret.val)
        /\ (PyFloatOf(dept_val).exc # "None"
            \/ PyIntOfFloat(PyFloatOf(dept_val).f).exc # "None")
           => dept_ret.val = "000"

-----------------------------------------------------------------------------
(* process_format_1 *)

Map(f(_), seq) == [i \in DOMAIN seq |-> f(seq[i])]

Zero == Fin(FALSE, 0, 0)

\* .fillna(0) of a coerced number
FillZero(f) == IF IsNaN(f) THEN Zero ELSE f

\* .fillna("").astype(str).replace(['nan', 'None'], '')
PromoStr1(x) ==
    LET t == IF IsNaCell(x) THEN "" ELSE PyStrOf(x)
    IN  IF t \in {"nan", "None"} THEN "" ELSE t

RequiredCols == {"nouhinbi", "bumon", "shouhin_code"}

OptionalCols == {"shouhinmei", "hacchuu_suuryou", "uri_tanka", "hacchuu_kubun"}

\* one row after lines 81-86; dept keeps clean_dept's outcome
Row1(r) ==
    [date         |-> parse_date_str(r["nouhinbi"]),
     department   |-> clean_dept(r["bumon"]),
     jan          |-> clean_jan(r["shouhin_code"]),
     product_name |-> r["shouhinmei"],
     quantity     |-> FillZero(to_numeric(r["hacchuu_suuryou"])),
     unit_price   |-> FillZero(to_numeric(r["uri_tanka"])),
     promotion    |-> PromoStr1(r["hacchuu_kubun"])]

HasDate(rec) == rec.date # NoDate

Settle(rec) == [rec EXCEPT !.department = rec.department.val]

\* dropna(subset=[COL_DATE])
DropNoDate(recs) == SelectSeq(recs, HasDate)

\* [exc, records]
process_format_1(d) ==
    LET rows == Map(Row1, d.rows)
        raised == {i \in DOMAIN rows : rows[i].department.exc # "None"}
    IN  IF ~(RequiredCols \subseteq d.columns)
        THEN [exc |-> "None", records |-> <<>>]
        ELSE IF raised # {}
        THEN [exc |-> rows[CHOOSE i \in raised : \A j \in raised : i <= j].department.exc,
              records |-> <<>>]
        ELSE IF ~(OptionalCols \subseteq d.columns)
        THEN [exc |-> "KeyError", records |-> <<>>]
        ELSE [exc |-> "None", records |-> DropNoDate(Map(Settle, rows))]

-----------------------------------------------------------------------------
(* process_format_2_from_df *)

IsUnnamed(label) == Contains(PyStrOf(label), "Unnamed")

IsWeekTotal(label) == Contains(PyStrOf(label), "shuugoukei")

\* last_top when the weekly total is remembered like any other label
RECURSIVE LastTopAny(_, _)
LastTopAny(cols, i) ==
    IF i = 0 THEN PyNone
    ELSE IF ~IsUnnamed(cols[i][1]) THEN cols[i][1]
    ELSE LastTopAny(cols, i - 1)

\* last_top after the first i columns of the loop of lines 99-103
RECURSIVE LastTop(_, _)
LastTop(cols, i) ==
    IF i = 0 THEN PyNone
    ELSE IF ~IsUnnamed(cols[i][1]) /\ ~IsWeekTotal(cols[i][1]) THEN cols[i][1]
    ELSE LastTop(cols, i - 1)

FinalTop(cols, i) == IF IsUnnamed(cols[i][1]) THEN LastTop(cols, i) ELSE cols[i][1]

NewCols(cols) == [i \in DOMAIN cols |-> <<FinalTop(cols, i), cols[i][2]>>]

\* the keys of fixed_col_map in insertion order (a dict keeps a key's first place)
RECURSIVE FixedKeys(_, _)
FixedKeys(new_cols, i) ==
    IF i = 0 THEN <<>>
    ELSE LET before == FixedKeys(new_cols, i - 1)
         IN  IF Contains(new_cols[i][2], "Unnamed")
                /\ \A j \in DOMAIN before : before[j] # new_cols[i]
             THEN Append(before, new_cols[i])
             ELSE before

\* date_cols after the first i columns of the loop of lines 111-117
RECURSIVE DateCols(_, _)
DateCols(new_cols, i) ==
    IF i = 0 THEN <<>>
    ELSE LET before == DateCols(new_cols, i - 1)
             top == new_cols[i][1]
         IN  IF ~Contains(new_cols[i][2], "Unnamed")
                /\ top # PyNone /\ ~IsWeekTotal(top)
                /\ \A j \in DOMAIN before : before[j] # top
             THEN Append(before, top)
             ELSE before

\* row[key] / row.get(key): the cell under the column named key, None without one
RowGet(new_cols, row, key) ==
    LET at == {i \in DOMAIN new_cols : new_cols[i] = key}
    IN  IF at = {} THEN PyNone ELSE row[CHOOSE i \in at : TRUE]

\* base_info.get(name, default): of the fixed columns named name the last one wins
BaseGet(new_cols, row, name, default) ==
    LET at == {i \in DOMAIN new_cols :
                 Contains(new_cols[i][2], "Unnamed") /\ new_cols[i][1] = name}
    IN  IF at = {} THEN default ELSE row[CHOOSE i \in at : \A j \in at : j <= i]

\* if not date_str or date_str == "nan"
SkippedLabel(date_str) == date_str \in {PyNone, PyStr(""), PyStr("nan")}

\* the test of line 133 on the quantity cell of (row, date_str)
QtyOf(new_cols, row, date_str) == to_numeric(RowGet(new_cols, row, <<date_str, "suuryou">>))

\* Emits without the zero test of line 133
EmitsZeroToo(new_cols, row, date_str) ==
    /\ ~SkippedLabel(date_str)
    /\ ~IsNaN(QtyOf(new_cols, row, date_str))

Emits(new_cols, row, date_str) ==
    /\ ~SkippedLabel(date_str)
    /\ ~IsNaN(QtyOf(new_cols, row, date_str))
    /\ ~IsZero(QtyOf(new_cols, row, date_str))

PromoStr2(x) == IF IsNaCell(x) THEN "" ELSE PyStrOf(x)

Record2(new_cols, row, date_str) ==
    [date         |-> parse_date_str(date_str),
     department   |-> clean_dept(BaseGet(new_cols, row, PyStr("bumon"), PyStr("000"))),
     jan          |-> clean_jan(BaseGet(new_cols, row, PyStr("JAN-code"), PyNone)),
     product_name |-> BaseGet(new_cols, row, PyStr("shouhinmei"), PyStr("")),
     quantity     |-> QtyOf(new_cols, row, date_str),
     unit_price   |-> to_numeric(RowGet(new_cols, row, <<date_str, "baika">>)),
     promotion    |-> PromoStr2(RowGet(new_cols, row, <<date_str, "hansoku">>))]

\* the records of one row: the inner loop of lines 129-148 over date_cols[k..]
RECURSIVE RowRecords(_, _, _, _)
RowRecords(new_cols, date_cols, row, k) ==
    IF k > Len(date_cols) THEN <<>>
    ELSE (IF Emits(new_cols, row, date_cols[k])
          THEN <<Record2(new_cols, row, date_cols[k])>> ELSE <<>>)
         \o RowRecords(new_cols, date_cols, row, k + 1)

\* the loop of lines 120-148 over rows[i..]
RECURSIVE AllRecords(_, _, _, _)
AllRecords(new_cols, date_cols, rows, i) ==
    IF i > Len(rows) THEN <<>>
    ELSE (IF IsNaCell(BaseGet(new_cols, rows[i], PyStr("JAN-code"), PyNone)) THEN <<>>
          ELSE RowRecords(new_cols, date_cols, rows[i], 1))
         \o AllRecords(new_cols, date_cols, rows, i + 1)

\* [exc, records]
process_format_2_from_df(d) ==
    LET new_cols == NewCols(d.columns)
        date_cols == DateCols(new_cols, Len(new_cols))
        recs == AllRecords(new_cols, date_cols, d.rows, 1)
        raised == {i \in DOMAIN recs : recs[i].department.exc # "None"}
    IN  IF raised # {}
        THEN [exc |-> recs[CHOOSE i \in raised : \A j \in raised : i <= j].department.exc,
              records |-> <<>>]
        ELSE [exc |-> "None", records |-> Map(Settle, recs)]

-----------------------------------------------------------------------------
(* The parsers' inputs *)

AllCols == RequiredCols \cup OptionalCols

\* the tables' column sets: every column, or all but one
F1Columns == {AllCols} \cup {AllCols \ {c} : c \in AllCols}

F1DateCells == {PyStr("20240501"), PyStr("5/2"), PyStr("x"), NaNCell}

F1Rows ==
    {[nouhinbi |-> dt, bumon |-> PyInt(12), shouhin_code |-> PyStr("'4901"),
      shouhinmei |-> PyStr("A"), hacchuu_suuryou |-> qp[1], uri_tanka |-> PyInt(100),
      hacchuu_kubun |-> qp[2]] :
        dt \in F1DateCells,
        qp \in {<<PyInt(3), NaNCell>>, <<PyStr("abc"), PyStr("tokubai")>>,
                <<PyInt(2), PyStr("nan")>>}}

RECURSIVE SeqsUpTo(_, _)
SeqsUpTo(S, n) ==
    IF n = 0 THEN {<<>>}
    ELSE LET shorter == SeqsUpTo(S, n - 1)
         IN  shorter \cup {Append(q, x) : q \in shorter, x \in S}

MaxRows1 == 2

F1Inputs == {[columns |-> c, rows |-> r] : c \in F1Columns, r \in SeqsUpTo(F1Rows, MaxRows1)}

\* pd.read_csv(header=[r, r+1]): an empty header cell of column i gets the
\* placeholder name "Unnamed: i_level_k"
NameCols(raw) ==
    [i \in DOMAIN raw |->
        <<PyStr(IF raw[i][1] = "" THEN "Unnamed: " \o NatToStr(i - 1) \o "_level_0"
                ELSE raw[i][1]),
          IF raw[i][2] = "" THEN "Unnamed: " \o NatToStr(i - 1) \o "_level_1"
          ELSE raw[i][2]>>]

\* the fixed columns of a Matrix table
FixedParts == {<< <<"JAN-code", "">> >>,
               << <<"JAN-code", "">>, <<"bumon", "">> >>,
               << <<"bumon", "">> >>}

\* the columns of one date group: quantity, quantity and price, price alone,
\* quantity and promotion
Group(label, shape) ==
    CASE shape = "q"  -> << <<label, "suuryou">> >>
      [] shape = "qp" -> << <<label, "suuryou">>, <<"", "baika">> >>
      [] shape = "p"  -> << <<label, "baika">> >>
      [] shape = "qh" -> << <<label, "suuryou">>, <<"", "hansoku">> >>

GroupLabels == {"5/1", "bikou", "nan", "shuugoukei"}

F2Headers ==
    {NameCols(f \o Group(l, sh)) :
        f \in FixedParts, l \in GroupLabels, sh \in {"q", "qp", "p", "qh"}}
    \cup
    {NameCols(<< <<"JAN-code", "">> >> \o Group("5/1", sh) \o Group(l, "q")) :
        sh \in {"q", "qp"}, l \in {"5/2", "bikou", "nan", "shuugoukei"}}

CellChoices(col) ==
    IF col[1] = PyStr("JAN-code") THEN {NaNCell, PyStr("'4901")}
    ELSE IF col[1] = PyStr("bumon") THEN {PyInt(12)}
    ELSE IF col[2] = "suuryou"
         THEN {NaNCell, PyFloat(Zero), PyFloat(Fin(FALSE, 5, 1)), PyStr("x")}
    ELSE IF col[2] = "baika" THEN {NaNCell, PyFloat(Fin(FALSE, 100, 0))}
    ELSE IF col[2] = "hansoku" THEN {NaNCell, PyStr("tokubai")}
    ELSE {NaNCell}

RECURSIVE RowsFor(_)
RowsFor(cols) ==
    IF cols = <<>> THEN {<<>>}
    ELSE {<<c>> \o r : c \in CellChoices(Head(cols)), r \in RowsFor(Tail(cols))}

MaxRows2 == 1

F2Inputs ==
    UNION {{[columns |-> h, rows |-> r] : r \in SeqsUpTo(RowsFor(h), MaxRows2)} :
              h \in F2Headers}

InitParse ==
    /\ IdleDept /\ IdleHeader /\ IdlePivot /\ IdleAgg /\ IdleScan /\ IdleSvg
    /\ parsed = Pending
    /\ \/ fmt = 1 /\ df \in F1Inputs
       \/ fmt = 2 /\ df \in F2Inputs

ProcessFormat1 ==
    /\ fmt = 1 /\ parsed = Pending
    /\ parsed' = process_format_1(df)
    /\ UNCHANGED <<fmt, df, varsDept, varsHeader, varsPivot, varsAgg, varsScan, varsSvg>>

ProcessFormat2 ==
    /\ fmt = 2 /\ parsed = Pending
    /\ parsed' = process_format_2_from_df(df)
    /\ UNCHANGED <<fmt, df, varsDept, varsHeader, varsPivot, varsAgg, varsScan, varsSvg>>

NextParse == ProcessFormat1 \/ ProcessFormat2

SpecParse == InitParse /\ [][NextParse]_vars

\* C1: every record either parser returns has a date.
C1_RecordsHaveDate ==
    parsed \notin {Pending, Idle} =>
        \A i \in DOMAIN parsed.records : parsed.records[i].date # NoDate

Done == parsed \notin {Pending, Idle}

Range(seq) == {seq[i] : i \in DOMAIN seq}

\* the date groups of the table: the labels the header pass classifies as dates
DateGroups(d) == Range(DateCols(NewCols(d.columns), Len(d.columns)))

\* the rows that carry a product code
JanRows(d) ==
    {i \in DOMAIN d.rows :
        ~IsNaCell(BaseGet(NewCols(d.columns), d.rows[i], PyStr("JAN-code"), PyNone))}

\* the quantity cell of (row i, group g) as a number, NaN when missing or no number
QtyAt(d, i, g) == to_numeric(RowGet(NewCols(d.columns), d.rows[i], <<g, "suuryou">>))

NonZeroPairs(d, groups) ==
    {p \in JanRows(d) \X groups : ~IsNaN(QtyAt(d, p[1], p[2])) /\ ~IsZero(QtyAt(d, p[1], p[2]))}

\* one record per pair of pairs, none besides
OneRecordPerPair(d, pairs) ==
    /\ Len(parsed.records) = Cardinality(pairs)
    /\ \A p \in pairs : \E k \in DOMAIN parsed.records :
          /\ parsed.records[k].date = parse_date_str(p[2])
          /\ parsed.records[k].quantity = QtyAt(d, p[1], p[2])

\* C3 as stated: in the Matrix parser a (row with a product code, date group) pair
\* yields a record if and only if its quantity cell is a nonzero number, and then
\* exactly one.
C3_RecordIffNonZero ==
    (fmt = 2 /\ Done) => OneRecordPerPair(df, NonZeroPairs(df, DateGroups(df)))

\* the date groups line 130 does not skip
ReadGroups(d) == {g \in DateGroups(d) : g \notin {PyStr(""), PyStr("nan")}}

\* C3 amended: the same for every date group whose label is neither empty nor the
\* text "nan"; a group so labelled yields no record whatever its quantity.
C3_RecordIffNonZeroRead ==
    (fmt = 2 /\ Done) => OneRecordPerPair(df, NonZeroPairs(df, ReadGroups(df)))

\* a table with a zero, a missing and a 0.5 quantity has been parsed, and a
\* record came out
C3_Witness ==
    /\ fmt = 2 /\ Done /\ Len(df.rows) = 1
    /\ Len(parsed.records) = 1
    /\ parsed.records[1].quantity = Fin(FALSE, 5, 1)
    /\ \E g \in ReadGroups(df) : 1 \in JanRows(df) /\ IsZero(QtyAt(df, 1, g))

\* the rows of a Transactional table whose date text normalizes
DatedRows(d) == SelectSeq(d.rows, LAMBDA r : parse_date_str(r.nouhinbi) # NoDate)

\* C4: given the delivery-date, department and product-code columns,
\* process_format_1 returns, without raising, one record per row whose date
\* normalizes, in row order, non-numeric quantity and price as 0 and a null-like
\* promotion as the empty string.
C4_OneRecordPerDatedRow ==
    (fmt = 1 /\ Done /\ RequiredCols \subseteq df.columns) =>
        /\ parsed.exc = "None"
        /\ Len(parsed.records) = Len(DatedRows(df))
        /\ \A k \in DOMAIN parsed.records :
              LET r == DatedRows(df)[k]
                  rec == parsed.records[k]
              IN  /\ rec.date = parse_date_str(r.nouhinbi)
                  /\ rec.jan = clean_jan(r.shouhin_code)
                  /\ (IsNaN(to_numeric(r.hacchuu_suuryou)) => rec.quantity = Zero)
                  /\ (~IsNaN(to_numeric(r.hacchuu_suuryou))
                        => rec.quantity = to_numeric(r.hacchuu_suuryou))
                  /\ (IsNaN(to_numeric(r.uri_tanka)) => rec.unit_price = Zero)
                  /\ (IsNaCell(r.hacchuu_kubun) \/ r.hacchuu_kubun \in {PyStr("nan"), PyStr("None")}
                        => rec.promotion = "")

-----------------------------------------------------------------------------
(* The header pass of process_format_2_from_df on its own *)

\* lines 95-117: new_cols, the keys of fixed_col_map, date_cols
NormalizeHeaderOf(cols) ==
    [new_cols      |-> NewCols(cols),
     fixed_col_map |-> FixedKeys(NewCols(cols), Len(cols)),
     date_cols     |-> DateCols(NewCols(cols), Len(cols))]

MaxCols == 3

HeaderTops == {"", "JAN-code", "5/1", "5/2", "shuugoukei"}

HeaderBottoms == {"", "suuryou"}

HeaderInputs == {NameCols(raw) : raw \in SeqsUpTo(HeaderTops \X HeaderBottoms, MaxCols)}

InitHeader ==
    /\ IdleDept /\ IdleParse /\ IdlePivot /\ IdleAgg /\ IdleScan /\ IdleSvg
    /\ columns \in HeaderInputs
    /\ header = Pending

NormalizeHeader ==
    /\ header = Pending
    /\ header' = NormalizeHeaderOf(columns)
    /\ UNCHANGED <<columns, varsDept, varsParse, varsPivot, varsAgg, varsScan, varsSvg>>

NextHeader == NormalizeHeader

SpecHeader == InitHeader /\ [][NextHeader]_vars

HeaderDone == header \notin {Pending, Idle}

\* no placeholder column takes a weekly-total label
NotPropagated ==
    \A i \in DOMAIN columns :
        IsUnnamed(columns[i][1]) => ~IsWeekTotal(header.new_cols[i][1])

NoWeekTotalDate == \A k \in DOMAIN header.date_cols : ~IsWeekTotal(header.date_cols[k])

\* C10 as stated: after the header pass a weekly-total top label has not been
\* propagated into a placeholder column, and no column with a weekly-total top
\* label is in the fixed-column map or in the date-group list.
C10_WeekTotalExcluded ==
    HeaderDone =>
        /\ NotPropagated
        /\ NoWeekTotalDate
        /\ \A k \in DOMAIN header.fixed_col_map : ~IsWeekTotal(header.fixed_col_map[k][1])

\* C10 amended: a weekly-total top label is never propagated and never in the
\* date-group list; a weekly-total column is in the fixed-column map exactly when
\* its bottom label is the placeholder.
C10_WeekTotalNotDate ==
    HeaderDone =>
        /\ NotPropagated
        /\ NoWeekTotalDate
        /\ \A i \in DOMAIN columns :
              IsWeekTotal(columns[i][1]) =>
                  ((\E k \in DOMAIN header.fixed_col_map :
                        header.fixed_col_map[k] = header.new_cols[i])
                   <=> Contains(columns[i][2], "Unnamed"))

\* a weekly-total column stands before a placeholder column, after a date
C10_Witness ==
    /\ HeaderDone /\ Len(columns) = 3
    /\ columns[1][1] = PyStr("5/1")
    /\ IsWeekTotal(columns[2][1]) /\ IsUnnamed(columns[3][1])
    /\ header.new_cols[3][1] = PyStr("5/1")

-----------------------------------------------------------------------------
(* Arithmetic on the floats of the record sets *)

RECURSIVE Norm(_)
\* the same number with no trailing zero after the point
Norm(f) ==
    IF f.c # "fin" THEN f
    ELSE IF f.m = 0 THEN Zero
    ELSE IF f.k > 0 /\ f.m % 10 = 0 THEN Norm(Fin(f.neg, f.m \div 10, f.k - 1))
    ELSE f

Signed(f, k) == (IF f.neg THEN -1 ELSE 1) * f.m * Pow10(k - f.k)

Max2(a, b) == IF a >= b THEN a ELSE b

OfSigned(n, k) == Norm(Fin(n < 0, IF n < 0 THEN -n ELSE n, k))

\* a + b
FAdd(a, b) ==
    IF a.c = "nan" \/ b.c = "nan" THEN NaN
    ELSE IF a.c = "inf" /\ b.c = "inf" THEN (IF a.neg = b.neg THEN a ELSE NaN)
    ELSE IF a.c = "inf" THEN a
    ELSE IF b.c = "inf" THEN b
    ELSE OfSigned(Signed(a, Max2(a.k, b.k)) + Signed(b, Max2(a.k, b.k)), Max2(a.k, b.k))

\* a * b
FMul(a, b) ==
    IF a.c = "nan" \/ b.c = "nan" THEN NaN
    ELSE IF a.c = "inf" \/ b.c = "inf"
         THEN (IF IsZero(a) \/ IsZero(b) THEN NaN ELSE Inf(a.neg # b.neg))
    ELSE Norm(Fin(a.neg # b.neg /\ a.m * b.m # 0, a.m * b.m, a.k + b.k))

\* a < b for numbers that are not NaN
FLess(a, b) ==
    IF a.c = "inf" THEN a.neg /\ ~(b.c = "inf" /\ b.neg)
    ELSE IF b.c = "inf" THEN ~b.neg
    ELSE Signed(a, Max2(a.k, b.k)) < Signed(b, Max2(a.k, b.k))

\* Series.sum(): NaN entries are skipped, the empty sum is 0
RECURSIVE SumSkipNa(_)
SumSkipNa(fs) ==
    IF fs = <<>> THEN Zero
    ELSE IF IsNaN(Head(fs)) THEN SumSkipNa(Tail(fs))
    ELSE FAdd(Head(fs), SumSkipNa(Tail(fs)))

\* the order of the characters the keys of the model are written in
Ascii == " '-./0123456789:ABCDEFGHIJKLMNOPQRSTUVWXYZ_abcdefghijklmnopqrstuvwxyz"

CharRank(c) == CHOOSE i \in 1..Len(Ascii) : CharAt(Ascii, i) = c

RECURSIVE StrLess(_, _)
\* a < b for str
StrLess(a, b) ==
    IF b = "" THEN FALSE
    ELSE IF a = "" THEN TRUE
    ELSE IF Head(a) # Head(b) THEN CharRank(Head(a)) < CharRank(Head(b))
    ELSE StrLess(Tail(a), Tail(b))

-----------------------------------------------------------------------------
(* create_matrix_csv *)

\* the index key of a record in the pivot
PivotKey(rec) == <<rec.department, rec.jan, rec.product_name, rec.unit_price, rec.promotion>>

\* pivot_table groups with dropna: a record with a null key or a null date
\* is in no group
InPivot(rec) ==
    /\ ~IsNaCell(rec.product_name)
    /\ ~IsNaN(rec.unit_price)
    /\ rec.date # NoDate

DateLess(a, b) == DateKey(a) < DateKey(b)

\* the order of the pivot's rows: by department, jan, name, price, promotion
KeyLess(a, b) ==
    IF a[1] # b[1] THEN StrLess(a[1], b[1])
    ELSE IF a[2] # b[2] THEN StrLess(a[2], b[2])
    ELSE IF a[3] # b[3] THEN StrLess(PyStrOf(a[3]), PyStrOf(b[3]))
    ELSE IF a[4] # b[4] THEN FLess(a[4], b[4])
    ELSE StrLess(a[5], b[5])

RECURSIVE SortedDates(_)
\* sorted(...) of a set of dates
SortedDates(S) ==
    IF S = {} THEN <<>>
    ELSE LET least == CHOOSE x \in S : \A y \in S \ {x} : DateLess(x, y)
         IN  <<least>> \o SortedDates(S \ {least})

RECURSIVE SortedKeys(_)
\* the groups of the pivot in the order of their keys
SortedKeys(S) ==
    IF S = {} THEN <<>>
    ELSE LET least == CHOOSE x \in S : \A y \in S \ {x} : KeyLess(x, y)
         IN  <<least>> \o SortedKeys(S \ {least})

\* d.strftime('%Y/%m/%d')
DateFmt(d) ==
    ZFill(NatToStr(d.y), 4) \o "/" \o ZFill(NatToStr(d.m), 2) \o "/" \o ZFill(NatToStr(d.d), 2)

QtyOfRec(rec) == rec.quantity

\* the cell of the pivot at (key, date): the sum of the quantities, 0 without any
PivotCell(kept, key, date) ==
    SumSkipNa(Map(QtyOfRec,
                  SelectSeq(kept, LAMBDA r : PivotKey(r) = key /\ r.date = date)))

PivotRow(kept, date_cols, key) ==
    LET cells == [j \in DOMAIN date_cols |-> PivotCell(kept, key, date_cols[j])]
    IN  [department   |-> key[1],
         jan          |-> "'" \o key[2],
         product_name |-> key[3],
         unit_price   |-> key[4],
         cells        |-> cells,
         total_qty    |-> SumSkipNa(cells),
         total_amount |-> FMul(SumSkipNa(cells), key[4]),
         promotion    |-> key[5]]

BaseCols == <<"bumon", "JAN", "shouhinmei", "tanka">>

TailCols == <<"goukei-suuryou", "goukei-kingaku", "hansoku">>

\* [empty, columns, rows]: empty stands for the return of b""
create_matrix_csv(d) ==
    LET kept == SelectSeq(d, InPivot)
        date_cols == SortedDates({kept[i].date : i \in DOMAIN kept})
        keys == SortedKeys({PivotKey(kept[i]) : i \in DOMAIN kept})
    IN  IF d = <<>> THEN [empty |-> TRUE, columns |-> <<>>, rows |-> <<>>]
        ELSE [empty   |-> FALSE,
              columns |-> BaseCols \o Map(DateFmt, date_cols) \o TailCols,
              rows    |-> [i \in DOMAIN keys |-> PivotRow(kept, date_cols, keys[i])]]

MaxRecs == 2

D1 == Date(default_year, 5, 1)
D2 == Date(default_year, 5, 2)

\* records as the parsers and the filters of main hand them on: dated, the price
\* of a Matrix record NaN where the price cell was missing
RecChoices ==
    {[date |-> dt, department |-> "012", jan |-> j, product_name |-> PyStr("A"),
      quantity |-> q, unit_price |-> pr, promotion |-> ""] :
        dt \in {D1, D2}, j \in {"4901", "4902"},
        q \in {Fin(FALSE, 2, 0), Fin(FALSE, 3, 0)},
        pr \in {NaN, Fin(FALSE, 100, 0), Fin(FALSE, 120, 0)}}

RecordSets == SeqsUpTo(RecChoices, MaxRecs)

InitPivot ==
    /\ IdleDept /\ IdleParse /\ IdleHeader /\ IdleAgg /\ IdleScan /\ IdleSvg
    /\ records \in RecordSets
    /\ csv = Pending

CreateMatrixCsv ==
    /\ csv = Pending
    /\ csv' = create_matrix_csv(records)
    /\ UNCHANGED <<records, varsDept, varsParse, varsHeader, varsAgg, varsScan, varsSvg>>

NextPivot == CreateMatrixCsv

SpecPivot == InitPivot /\ [][NextPivot]_vars

\* C5: for a non-empty record set the date columns of the export are the distinct
\* dates of the records, each once, ascending, between the identity columns and
\* the total columns.
C5_DateColumnsAreInputDates ==
    (csv \notin {Pending, Idle} /\ records # <<>>) =>
        csv.columns =
            BaseCols
            \o Map(DateFmt, SortedDates({records[i].date : i \in DOMAIN records}))
            \o TailCols

TotalQtyOfRow(r) == r.total_qty

\* C11: the export conserves quantity: for a non-empty record set the total
\* quantities of the pivot's rows add up to the quantities of the records, and the
\* total amount of every row is its total quantity times the unit price of its
\* group.
C11_QuantityConserved ==
    (csv \notin {Pending, Idle} /\ records # <<>>) =>
        /\ SumSkipNa(Map(TotalQtyOfRow, csv.rows)) = SumSkipNa(Map(QtyOfRec, records))
        /\ \A i \in DOMAIN csv.rows :
              csv.rows[i].total_amount = FMul(csv.rows[i].total_qty, csv.rows[i].unit_price)

-----------------------------------------------------------------------------
(* The summary aggregation of main *)

\* line 355: the amount of a record, NaN without a price
WithAmount(rec) ==
    [date |-> rec.date, department |-> rec.department, jan |-> rec.jan,
     product_name |-> rec.product_name, quantity |-> rec.quantity,
     unit_price |-> rec.unit_price, promotion |-> rec.promotion,
     total_amount |-> FMul(rec.quantity, rec.unit_price)]

\* 'max': the largest entry that is not NaN, NaN without one
RECURSIVE MaxSkipNa(_)
MaxSkipNa(fs) ==
    IF fs = <<>> THEN NaN
    ELSE LET rest == MaxSkipNa(Tail(fs))
         IN  IF IsNaN(Head(fs)) THEN rest
             ELSE IF IsNaN(rest) \/ FLess(rest, Head(fs)) THEN Head(fs)
             ELSE rest

\* 'first' of the names: the first entry that is not null, NaN without one
RECURSIVE FirstName(_)
FirstName(g) ==
    IF g = <<>> THEN NaNCell
    ELSE IF IsNaCell(Head(g).product_name) THEN FirstName(Tail(g))
    ELSE Head(g).product_name

PriceOfRec(rec) == rec.unit_price

AmountOfRec(rec) == rec.total_amount

\* the summed amount taken as total quantity times the largest price
AggRowByMaxPrice(d, jan) ==
    LET g == SelectSeq(d, LAMBDA r : r.jan = jan)
    IN  [jan          |-> jan,
         department   |-> g[1].department,
         product_name |-> FirstName(g),
         unit_price   |-> MaxSkipNa(Map(PriceOfRec, g)),
         quantity     |-> SumSkipNa(Map(QtyOfRec, g)),
         total_amount |-> FMul(SumSkipNa(Map(QtyOfRec, g)), MaxSkipNa(Map(PriceOfRec, g))),
         promotion    |-> g[1].promotion]

\* the row of group jan: lines 445-447
AggRow(d, jan) ==
    LET g == SelectSeq(d, LAMBDA r : r.jan = jan)
    IN  [jan          |-> jan,
         department   |-> g[1].department,
         product_name |-> FirstName(g),
         unit_price   |-> MaxSkipNa(Map(PriceOfRec, g)),
         quantity     |-> SumSkipNa(Map(QtyOfRec, g)),
         total_amount |-> SumSkipNa(Map(AmountOfRec, g)),
         promotion    |-> g[1].promotion]

\* quantities never rise along the table
Descending(rows) ==
    \A i \in DOMAIN rows : \A j \in DOMAIN rows :
        i < j => ~FLess(rows[i].quantity, rows[j].quantity)

IsPermutation(rows, S) ==
    /\ Len(rows) = Cardinality(S)
    /\ {rows[i] : i \in DOMAIN rows} = S

\* the tables sort_values(by=COL_QTY, ascending=False) can give: ties in any order
SortedByQty(S) ==
    {rows \in SeqsUpTo(S, Cardinality(S)) : IsPermutation(rows, S) /\ Descending(rows)}

\* the summaries of record set d
Summaries(d) ==
    LET m == Map(WithAmount, d)
    IN  SortedByQty({AggRow(m, j) : j \in {m[i].jan : i \in DOMAIN m}})

InitAgg ==
    /\ IdleDept /\ IdleParse /\ IdleHeader /\ IdlePivot /\ IdleScan /\ IdleSvg
    /\ filtered_df \in RecordSets
    /\ agg_view = Pending

Aggregate ==
    /\ agg_view = Pending
    /\ \E rows \in Summaries(filtered_df) : agg_view' = [exc |-> "None", rows |-> rows]
    /\ UNCHANGED <<filtered_df, varsDept, varsParse, varsHeader, varsPivot, varsScan, varsSvg>>

NextAgg == Aggregate

SpecAgg == InitAgg /\ [][NextAgg]_vars

AggDone == agg_view \notin {Pending, Idle}

\* the records of group jan
GroupIdx(jan) == {i \in DOMAIN filtered_df : filtered_df[i].jan = jan}

RECURSIVE QtySum(_)
QtySum(I) ==
    IF I = {} THEN Zero
    ELSE LET i == CHOOSE x \in I : TRUE
         IN  FAdd(filtered_df[i].quantity, QtySum(I \ {i}))

\* the sum of quantity x price over the records of I that carry a price
RECURSIVE AmountSum(_)
AmountSum(I) ==
    IF I = {} THEN Zero
    ELSE LET i == CHOOSE x \in I : TRUE
         IN  IF IsNaN(filtered_df[i].unit_price) THEN AmountSum(I \ {i})
             ELSE FAdd(FMul(filtered_df[i].quantity, filtered_df[i].unit_price),
                       AmountSum(I \ {i}))

\* p is the largest price observed in I, NaN when no record of I carries a price
IsMaxPrice(p, I) ==
    LET seen == {filtered_df[i].unit_price : i \in I} \ {NaN}
    IN  IF seen = {} THEN p = NaN
        ELSE p \in seen /\ \A q \in seen : ~FLess(p, q)

\* C6: the summary has one row per distinct jan; its quantity is the sum of the
\* group's quantities, its amount the sum over the group's records of quantity
\* times that record's price (a record without a price adds nothing), its price
\* the largest observed one; the rows stand in descending order of quantity.
C6_SummaryPerJan ==
    AggDone =>
        /\ {agg_view.rows[k].jan : k \in DOMAIN agg_view.rows}
              = {filtered_df[i].jan : i \in DOMAIN filtered_df}
        /\ \A k \in DOMAIN agg_view.rows : \A l \in DOMAIN agg_view.rows :
              agg_view.rows[k].jan = agg_view.rows[l].jan => k = l
        /\ \A k \in DOMAIN agg_view.rows :
              /\ agg_view.rows[k].quantity = QtySum(GroupIdx(agg_view.rows[k].jan))
              /\ agg_view.rows[k].total_amount = AmountSum(GroupIdx(agg_view.rows[k].jan))
              /\ IsMaxPrice(agg_view.rows[k].unit_price, GroupIdx(agg_view.rows[k].jan))
        /\ \A k \in DOMAIN agg_view.rows : \A l \in DOMAIN agg_view.rows :
              k < l => ~FLess(agg_view.rows[k].quantity, agg_view.rows[l].quantity)

\* two records of one jan at different prices are summed, and the amount is not
\* the total quantity at the larger price; a second group follows with less
C6_Witness ==
    /\ AggDone /\ Len(filtered_df) = 2 /\ Len(agg_view.rows) = 1
    /\ filtered_df[1].unit_price = Fin(FALSE, 100, 0)
    /\ filtered_df[2].unit_price = Fin(FALSE, 120, 0)
    /\ agg_view.rows[1].total_amount # FMul(agg_view.rows[1].quantity, agg_view.rows[1].unit_price)

-----------------------------------------------------------------------------
(* generate_svg *)

EscapeChar(c) ==
    CASE c = "&" -> "&amp;" [] c = "<" -> "&lt;" [] c = ">" -> "&gt;"
      [] c = "\"" -> "&quot;" [] c = "'" -> "&#x27;" [] OTHER -> c

RECURSIVE html_escape(_)
\* html.escape(s)
html_escape(s) == IF s = "" THEN "" ELSE EscapeChar(Head(s)) \o html_escape(Tail(s))

Tier5 == 100000
Tier4 == 50000
Tier3 == 20000
Tier2 == 5000

\* a >= n for a float a and an integer n; no comparison with NaN holds
AtLeast(a, n) == ~IsNaN(a) /\ ~FLess(a, Fin(FALSE, n, 0))

\* the chain with the lowest threshold tested first
FaceCountLowFirst(total_amount) ==
    IF AtLeast(total_amount, Tier2) THEN "2F"
    ELSE IF AtLeast(total_amount, Tier3) THEN "3F"
    ELSE IF AtLeast(total_amount, Tier4) THEN "4F"
    ELSE IF AtLeast(total_amount, Tier5) THEN "5F"
    ELSE "1F"

\* lines 282-286
FaceCount(total_amount) ==
    IF AtLeast(total_amount, Tier5) THEN "5F"
    ELSE IF AtLeast(total_amount, Tier4) THEN "4F"
    ELSE IF AtLeast(total_amount, Tier3) THEN "3F"
    ELSE IF AtLeast(total_amount, Tier2) THEN "2F"
    ELSE "1F"

\* lines 288-290
IsSale(promo) ==
    promo # "" /\ (Contains(promo, "tokubai") \/ Contains(promo, "se-ru")
                   \/ Contains(promo, "supo"))

RECURSIVE Commas(_)
\* the digits of format spec "," : groups of three from the right
Commas(digits) ==
    IF Len(digits) <= 3 THEN digits
    ELSE Commas(SubSeq(digits, 1, Len(digits) - 3)) \o ","
         \o SubSeq(digits, Len(digits) - 2, Len(digits))

\* f"{n:,}"
FmtComma(n) == IF n < 0 THEN "-" \o Commas(NatToStr(-n)) ELSE Commas(NatToStr(n))

\* current_d + datetime.timedelta(days=1)
NextDay(d) ==
    IF d.d < DaysInMonth(d.y, d.m) THEN Date(d.y, d.m, d.d + 1)
    ELSE IF d.m < 12 THEN Date(d.y, d.m + 1, 1)
    ELSE Date(d.y + 1, 1, 1)

RECURSIVE DayAt(_, _)
DayAt(start, i) == IF i = 0 THEN start ELSE NextDay(DayAt(start, i - 1))

\* daily_qty_map.get(d, 0); the map is a set of <<date, quantity>>
QtyOn(map, d) ==
    IF \E e \in map : e[1] = d THEN (CHOOSE e \in map : e[1] = d)[2] ELSE Zero

CalendarDays == 7

\* one cell of the calendar strip: lines 298-303
CalendarCell(map, start, i) ==
    LET d == DayAt(start, i)
        qty == QtyOn(map, d)
    IN  [x_pos     |-> 5 + i * 84,
         fill_col  |-> IF i % 2 = 0 THEN "#fff" ELSE "#f9fafb",
         text_fill |-> IF FLess(Zero, qty) THEN "#000" ELSE "#d1d5db",
         d_str     |-> NatToStr(d.m) \o "/" \o NatToStr(d.d),
         qty       |-> IntToStr(PyIntOfFloat(qty).v)]

\* the text nodes and colours of the document, in the order of line 308;
\* exc names the exception of int() on a price, amount or quantity that is no
\* finite number
generate_svg(r, map, start) ==
    LET promo == IF r.promotion # "" THEN r.promotion ELSE ""
        ints == <<PyIntOfFloat(r.unit_price), PyIntOfFloat(r.total_amount),
                  PyIntOfFloat(r.quantity)>>
        bad == {k \in 1..3 : ints[k].exc # "None"}
    IN  IF bad # {}
        THEN [exc |-> ints[CHOOSE k \in bad : \A j \in bad : k <= j].exc]
        ELSE [exc      |-> "None",
              clr      |-> IF IsSale(promo) THEN "#ef4444" ELSE "#334155",
              bg       |-> IF IsSale(promo) THEN "#fef2f2" ELSE "#f8fafc",
              promo    |-> IF promo # "" THEN promo ELSE "tsuujou",
              dept     |-> r.department,
              fc       |-> FaceCount(r.total_amount),
              jan      |-> r.jan,
              name     |-> html_escape(PyStrOf(r.product_name)),
              price    |-> FmtComma(ints[1].v),
              amount   |-> FmtComma(ints[2].v),
              total    |-> IntToStr(ints[3].v),
              calendar |-> [i \in 1..CalendarDays |-> CalendarCell(map, start, i - 1)]]

\* free text as a spreadsheet cell can hold it
FreeTexts == {"A", "A&B", "<A>", "tokubai", "x<supo"}

SvgAmounts ==
    {Zero, Fin(FALSE, Tier2 - 1, 0), Fin(FALSE, Tier2, 0), Fin(FALSE, Tier3 - 1, 0),
     Fin(FALSE, Tier3, 0), Fin(FALSE, Tier4 - 1, 0), Fin(FALSE, Tier4, 0),
     Fin(FALSE, 75000, 0), Fin(FALSE, Tier5 * 10 - 5, 1), Fin(FALSE, Tier5, 0),
     Fin(FALSE, Tier5 + Tier4, 0)}

\* rows of the summary table
SvgRows ==
    {[department |-> "012", jan |-> j, product_name |-> PyStr(n), unit_price |-> pr,
      quantity |-> Fin(FALSE, 5, 0), total_amount |-> a, promotion |-> pm] :
        j \in {"4901", "49<1"}, n \in {"A", "A&B"},
        pr \in {Fin(FALSE, 100, 0), NaN}, a \in SvgAmounts,
        pm \in {""} \cup FreeTexts}

SvgMaps == {{}, {<<Date(default_year, 3, 1), Fin(FALSE, 5, 0)>>}}

SvgStarts == {Date(default_year, 2, 27), Date(default_year, 12, 29)}

InitSvg ==
    /\ IdleDept /\ IdleParse /\ IdleHeader /\ IdlePivot /\ IdleAgg /\ IdleScan
    /\ svg_row \in SvgRows
    /\ daily_qty_map \in SvgMaps
    /\ start_date \in SvgStarts
    /\ svg = Pending

GenerateSvg ==
    /\ svg = Pending
    /\ svg' = generate_svg(svg_row, daily_qty_map, start_date)
    /\ UNCHANGED <<svg_row, daily_qty_map, start_date,
                   varsDept, varsParse, varsHeader, varsPivot, varsAgg, varsScan>>

NextSvg == GenerateSvg

SpecSvg == InitSvg /\ [][NextSvg]_vars

SvgDone == svg \notin {Pending, Idle} /\ svg.exc = "None"

Entities == {"&amp;", "&lt;", "&gt;", "&quot;", "&#x27;"}

\* text that can stand in a document: no angle bracket, and every ampersand
\* opens a character entity
MarkupSafe(s) ==
    \A i \in 1..Len(s) :
        /\ CharAt(s, i) \notin {"<", ">"}
        /\ CharAt(s, i) = "&" => \E e \in Entities : StartsWith(SubSeq(s, i, Len(s)), e)

\* C7: in the document every free-text field of the item (name, promotion,
\* product code, department) stands escaped: none of them puts a bare '<', '>'
\* or '&' into it.
C7_FreeTextEscaped ==
    SvgDone =>
        /\ MarkupSafe(svg.name)
        /\ MarkupSafe(svg.promo)
        /\ MarkupSafe(svg.jan)
        /\ MarkupSafe(svg.dept)

\* C8: the face-count tier follows from the total amount alone, the highest
\* threshold first; 75000 with a label holding the special-sale marker gives 4F
\* in the sale colour.
C8_TierByAmount ==
    SvgDone =>
        /\ (AtLeast(svg_row.total_amount, Tier5) => svg.fc = "5F")
        /\ (~AtLeast(svg_row.total_amount, Tier5) /\ AtLeast(svg_row.total_amount, Tier4)
              => svg.fc = "4F")
        /\ (~AtLeast(svg_row.total_amount, Tier4) /\ AtLeast(svg_row.total_amount, Tier3)
              => svg.fc = "3F")
        /\ (~AtLeast(svg_row.total_amount, Tier3) /\ AtLeast(svg_row.total_amount, Tier2)
              => svg.fc = "2F")
        /\ (~AtLeast(svg_row.total_amount, Tier2) => svg.fc = "1F")
        /\ (svg_row.total_amount = Fin(FALSE, 75000, 0) /\ Contains(svg_row.promotion, "tokubai")
              => svg.fc = "4F" /\ svg.clr = "#ef4444")

\* the item of scenario 3 has been rendered
C8_Witness ==
    /\ SvgDone
    /\ svg_row.total_amount = Fin(FALSE, 75000, 0)
    /\ svg_row.promotion = "tokubai"
    /\ svg.fc = "4F" /\ svg.clr = "#ef4444"

-----------------------------------------------------------------------------
(* The detection scan of load_data: lines 161-191 *)

\* the candidate encodings in the order line 171 tries them
Encodings == <<"utf-8", "cp932">>

\* lines[:30]
ScanLimit == 30

\* the Matrix pair of line 178
HasMatrixPair(line) == Contains(line, "JAN-code") /\ Contains(line, "bumon")

\* the Transactional pair of line 184
HasTransPair(line) == Contains(line, "nouhinbi") /\ Contains(line, "bumon")

\* a scan that goes on to the next encoding whatever it found
StopScanNever(ft) == FALSE

\* line 189: if format_type: break
StopScan(ft) == ft # 0

\* sample_bytes.decode(e): [ok, lines]; ok is FALSE for UnicodeDecodeError
Decoded(e) == sample[e]

Undecodable == [ok |-> FALSE, lines |-> <<>>]

Text(lines) == [ok |-> TRUE, lines |-> lines]

Filler == "bumon,x"

LineChoices == {Filler, "JAN-code,bumon", "nouhinbi,bumon", "nouhinbi,JAN-code,bumon"}

MaxBody == 2

\* a text: no line or 29 lines without a pair, then up to MaxBody lines
Texts ==
    {Text(pre \o body) :
        pre \in {<<>>, [k \in 1..(ScanLimit - 1) |-> Filler]},
        body \in SeqsUpTo(LineChoices, MaxBody)}

\* what the two decodings of one sample can be: one of them fails, or both read
\* the same lines, or the second reads other text
Samples ==
    {<<Undecodable, t>> : t \in Texts \cup {Undecodable}}
    \cup {<<t, Undecodable>> : t \in Texts}
    \cup {<<t, t>> : t \in Texts}
    \cup {<<t, Text(<<l>>)>> : t \in Texts, l \in LineChoices}

\* the state after lines 161-168, before the first encoding is tried
InitScan ==
    /\ IdleDept /\ IdleParse /\ IdleHeader /\ IdlePivot /\ IdleAgg /\ IdleSvg
    /\ sample \in Samples
    /\ pc = "decode" /\ enc_i = 1 /\ line_i = 0
    /\ start_row = 0 /\ detected_enc = "cp932" /\ format_type = 0

Others == <<varsDept, varsParse, varsHeader, varsPivot, varsAgg, varsSvg>>

\* line 173 raises UnicodeDecodeError: continue with the next encoding
DecodeFail ==
    /\ pc = "decode" /\ enc_i <= Len(Encodings) /\ ~Decoded(enc_i).ok
    /\ enc_i' = enc_i + 1
    /\ UNCHANGED <<sample, pc, line_i, start_row, detected_enc, format_type, Others>>

\* lines 173-174: the text splits into lines, the inner loop starts
DecodeOk ==
    /\ pc = "decode" /\ enc_i <= Len(Encodings) /\ Decoded(enc_i).ok
    /\ pc' = "line" /\ line_i' = 0
    /\ UNCHANGED <<sample, enc_i, start_row, detected_enc, format_type, Others>>

\* the loop of line 171 has no encoding left
ScanExhausted ==
    /\ pc = "decode" /\ enc_i > Len(Encodings)
    /\ pc' = "done"
    /\ UNCHANGED <<sample, enc_i, line_i, start_row, detected_enc, format_type, Others>>

InLoop == pc = "line" /\ line_i < Len(Decoded(enc_i).lines) /\ line_i < ScanLimit

\* lines 178-182
LineMatrix ==
    /\ InLoop /\ HasMatrixPair(Decoded(enc_i).lines[line_i + 1])
    /\ start_row' = line_i /\ detected_enc' = Encodings[enc_i] /\ format_type' = 2
    /\ pc' = "after"
    /\ UNCHANGED <<sample, enc_i, line_i, Others>>

\* lines 184-188
LineTrans ==
    /\ InLoop /\ ~HasMatrixPair(Decoded(enc_i).lines[line_i + 1])
    /\ HasTransPair(Decoded(enc_i).lines[line_i + 1])
    /\ start_row' = line_i /\ detected_enc' = Encodings[enc_i] /\ format_type' = 1
    /\ pc' = "after"
    /\ UNCHANGED <<sample, enc_i, line_i, Others>>

\* neither pair: the next line
LineNone ==
    /\ InLoop /\ ~HasMatrixPair(Decoded(enc_i).lines[line_i + 1])
    /\ ~HasTransPair(Decoded(enc_i).lines[line_i + 1])
    /\ line_i' = line_i + 1
    /\ UNCHANGED <<sample, pc, enc_i, start_row, detected_enc, format_type, Others>>

\* the inner loop has read lines[:30]
LinesEnd ==
    /\ pc = "line" /\ ~InLoop
    /\ pc' = "after"
    /\ UNCHANGED <<sample, enc_i, line_i, start_row, detected_enc, format_type, Others>>

\* line 189 leaves the loop over the encodings
AfterBreak ==
    /\ pc = "after" /\ StopScan(format_type)
    /\ pc' = "done"
    /\ UNCHANGED <<sample, enc_i, line_i, start_row, detected_enc, format_type, Others>>

\* line 189 falls through: the next encoding
AfterNext ==
    /\ pc = "after" /\ ~StopScan(format_type)
    /\ pc' = "decode" /\ enc_i' = enc_i + 1
    /\ UNCHANGED <<sample, line_i, start_row, detected_enc, format_type, Others>>

NextScan ==
    \/ DecodeFail \/ DecodeOk \/ ScanExhausted
    \/ LineMatrix \/ LineTrans \/ LineNone \/ LinesEnd
    \/ AfterBreak \/ AfterNext

SpecScan == InitScan /\ [][NextScan]_vars

Min2(a, b) == IF a <= b THEN a ELSE b

\* the 0-based indexes, among the first 30 lines of decoding e, of the lines
\* that hold either pair
Hits(e) ==
    IF ~sample[e].ok THEN {}
    ELSE {j \in 0..(Min2(Len(sample[e].lines), ScanLimit) - 1) :
            HasMatrixPair(sample[e].lines[j + 1]) \/ HasTransPair(sample[e].lines[j + 1])}

HitEncs == {e \in DOMAIN Encodings : Hits(e) # {}}

FirstEnc == CHOOSE e \in HitEncs : \A f \in HitEncs : e <= f

FirstLine == CHOOSE j \in Hits(FirstEnc) : \A k \in Hits(FirstEnc) : j <= k

\* C9: the scan settles on the first match in (encoding order, line order) among
\* the first 30 lines; the layout is Matrix when that line holds the Matrix pair,
\* Transactional otherwise; nothing later overrides it; with no match the
\* result is Unknown.
C9_FirstMatchWins ==
    /\ format_type # 0 =>
          /\ HitEncs # {}
          /\ detected_enc = Encodings[FirstEnc]
          /\ start_row = FirstLine
          /\ format_type = IF HasMatrixPair(sample[FirstEnc].lines[FirstLine + 1]) THEN 2 ELSE 1
          /\ pc \in {"after", "done"}
    /\ pc = "done" => (format_type = 0 <=> HitEncs = {})

\* the first encoding matched on a line that holds both pairs, the second
\* encoding holds a Transactional line, and the scan is over
C9_Witness ==
    /\ pc = "done" /\ format_type = 2 /\ detected_enc = "utf-8"
    /\ HasTransPair(sample[1].lines[start_row + 1])
    /\ sample[2].ok /\ Hits(2) # {}
    /\ ~HasMatrixPair(sample[2].lines[1])

NextDept == CleanDept

SpecDept == InitDept /\ [][NextDept]_vars

====
